---- MODULE Spec2Model ----
(***************************************************************************)
(* Model of scheduler/core.py: the Scheduler's job set, its tag based      *)
(* query/delete operations and the tick (exec_jobs) with its inline and    *)
(* threaded dispatch.  The Job class (scheduler/job.py) and the priority   *)
(* function (scheduler/util.py) are modelled from their description in     *)
(* spec.md.                                                                *)
(***************************************************************************)
EXTENDS Integers, Sequences, FiniteSets, TLC

(* ------------------------------ bounds -------------------------------- *)
MaxJobs == 2
MaxTime == 1
MaxExec == 2
MaxThreads == 2
MaxAttempts == 2
MaxWeight == 2
MaxDispatch == 2
MaxInitJobs == 3
MaxCallers == 2
MaxCalls == 1

\* jobs come from the registration methods (at most MaxJobs of them) or from
\* the `jobs` argument of the constructor (at most MaxInitJobs)
JobIds == 1..(IF MaxJobs > MaxInitJobs THEN MaxJobs ELSE MaxInitJobs)

\* the identities of the jobs the registration methods construct
Registrable == 1..MaxJobs

\* the threads that call the Scheduler; the single caller of the sequential
\* specifications is thread 1, worker w of a tick is thread MaxCallers + w
Callers == 1..MaxCallers
Tags == {"a", "b"}

VARIABLES
    n_threads,   \* Scheduler.__n_threads
    max_exec,    \* Scheduler.__max_exec
    now,         \* the wall clock read by dt.datetime.now
    job,         \* the Job objects constructed so far, by identity
    jobs,        \* Scheduler.__jobs
    pc,          \* position of the thread that is inside exec_jobs
    tick,        \* locals of the running exec_jobs / __exec_jobs call
    dispatches,  \* per job: how often it was handed to __exec_jobs
    last,        \* the most recently finished call and its outcome
    lock,        \* Scheduler.__lock (RLock): owner thread and hold count
    jobs_lock,   \* Scheduler.__jobs_lock (RLock)
    th           \* the calls in progress of concurrently calling threads

vars == <<n_threads, max_exec, now, job, jobs, pc, tick, dispatches, last,
          lock, jobs_lock, th>>

\* what the sequential operations leave alone
sync == <<lock, jobs_lock, th>>

(* ------------------------------ helpers ------------------------------- *)
Range(s) == {s[i] : i \in DOMAIN s}

Min(a, b) == IF a < b THEN a ELSE b

\* every order in which Python may iterate over the set S
Orders(S) ==
    {s \in [1..Cardinality(S) -> S] : \A i, k \in DOMAIN s : i # k => s[i] # s[k]}

\* the arguments a caller may pass as `tags`: None, a set of strings, or the
\* literal {} (which Python reads as an empty dict)
TagArgs ==
    {[kind |-> "None", val |-> {}], [kind |-> "dict", val |-> {}]}
        \cup {[kind |-> "set", val |-> s] : s \in SUBSET Tags}

(* ------------------------------ RLock --------------------------------- *)
FreeLock == [owner |-> 0, count |-> 0]

\* threading.RLock.acquire succeeds for a free lock and for its owner
can_acquire(l, t) == l.owner = 0 \/ l.owner = t

acquire(l, t) == [owner |-> t, count |-> l.count + 1]

release(l) ==
    IF l.count = 1 THEN FreeLock ELSE [l EXCEPT !.count = @ - 1]

(* ------------------------------ Job ----------------------------------- *)
NoJob ==
    [made |-> FALSE, tags |-> {}, max_attempts |-> 0, attempts |-> 0,
     weight |-> 1, interval |-> 1, next_due |-> 0,
     job_type |-> "CYCLIC", delay |-> FALSE, start |-> -1, via |-> "none"]

\* Job.has_attempts_remaining
has_attempts_remaining(j) ==
    j.max_attempts = 0 \/ j.attempts < j.max_attempts

\* Job.timedelta(ref_dt): time until due, negative when overdue
timedelta(j, ref_dt) == j.next_due - ref_dt

\* Job._calc_next_exec(ref_dt) of a cyclic job
calc_next_exec(j, ref_dt) == [j EXCEPT !.next_due = ref_dt + j.interval]

\* Job._exec with a callback that returns
exec_ok(j) == [j EXCEPT !.attempts = @ + 1]

\* Prioritization.linear_priority_function
linear_priority_function(seconds, j, mx, n) == seconds * j.weight

(* ------------------------- tag selection ------------------------------ *)
\* a selection that ignores any_tag
select_jobs_by_tag_all(js, tags, any_tag) ==
    {j \in js : tags \subseteq job[j].tags}

select_jobs_by_tag(js, tags, any_tag) ==
    IF any_tag
    THEN {j \in js : (tags \cap job[j].tags) # {}}
    ELSE {j \in js : tags \subseteq job[j].tags}

\* `tags is None or tags == {}`: a set object never equals the dict {}
tags_is_none_or_empty_dict(t) == t.kind = "None" \/ (t.kind = "dict" /\ t.val = {})

\* Scheduler.get_jobs
get_jobs_result(js, t, any_tag) ==
    IF tags_is_none_or_empty_dict(t)
    THEN js
    ELSE select_jobs_by_tag(js, t.val, any_tag)

(* ------------------------- tick: selection ---------------------------- *)
\* job_priority as built by the loop of exec_jobs
job_priority(ref_dt) ==
    [j \in JobIds |->
        IF j \in jobs
        THEN linear_priority_function(0 - timedelta(job[j], ref_dt), job[j],
                                      max_exec, Cardinality(jobs))
        ELSE 0]

\* a sort that forgets reverse=True: lowest priority first
sorted_jobs_ascending(it, prio) ==
    LET n == Len(it)
        rank(k) == Cardinality({m \in 1..n :
                        \/ prio[it[m]] < prio[it[k]]
                        \/ (prio[it[m]] = prio[it[k]] /\ m < k)}) + 1
    IN [r \in 1..n |-> it[CHOOSE k \in 1..n : rank(k) = r]]

\* sorted(job_priority, key=job_priority.get, reverse=True): a stable sort of
\* the iteration order `it`, highest priority first
sorted_jobs(it, prio) ==
    LET n == Len(it)
        rank(k) == Cardinality({m \in 1..n :
                        \/ prio[it[m]] > prio[it[k]]
                        \/ (prio[it[m]] = prio[it[k]] /\ m < k)}) + 1
    IN [r \in 1..n |-> it[CHOOSE k \in 1..n : rank(k) = r]]

\* the list comprehension of exec_jobs: `idx` counts from 0 in the source
RECURSIVE filter_from(_, _, _)
filter_from(s, prio, i) ==
    IF i > Len(s) THEN <<>>
    ELSE IF (max_exec = 0 \/ i - 1 < max_exec) /\ prio[s[i]] > 0
         THEN <<s[i]>> \o filter_from(s, prio, i + 1)
         ELSE filter_from(s, prio, i + 1)

\* a filter that applies the cap but forgets `job_priority[job] > 0`
filtered_jobs_any_priority(s, prio) ==
    SubSeq(s, 1, IF max_exec = 0 THEN Len(s) ELSE Min(max_exec, Len(s)))

filtered_jobs(s, prio) == filter_from(s, prio, 1)

\* a selection that ignores force_exec_all
dispatch_list_unforced(force, it, prio) ==
    filtered_jobs(sorted_jobs(it, prio), prio)

\* the list exec_jobs hands to __exec_jobs; `it` is the iteration order of
\* self.__jobs
dispatch_list(force, it, prio) ==
    IF force THEN it ELSE filtered_jobs(sorted_jobs(it, prio), prio)

(* ------------------------------ Init ---------------------------------- *)
\* a thread that is in no call of the Scheduler
IdleCall ==
    [pc |-> "idle", op |-> "none", arg |-> 0, tmp |-> {}, ref_dt |-> 0,
     sel |-> <<>>, idx |-> 1, execd |-> {}, conc |-> {}, seen |-> {}]

\* a callback that is in no call of the Scheduler
NoCall == [op |-> "none", arg |-> 0, need |-> <<>>, n |-> 0]

NoTick ==
    [ref_dt |-> 0, force |-> FALSE, pre |-> {}, prio |-> [j \in JobIds |-> 0],
     sel |-> <<>>, idx |-> 1, que |-> <<>>, unfinished |-> 0,
     wk |-> <<>>, wjob |-> <<>>, executed |-> {}, raised |-> {},
     calls |-> [j \in JobIds |-> 0], call |-> [c \in {0} |-> NoCall]]

InitWith(NT, ME) ==
    /\ n_threads \in NT
    /\ max_exec \in ME
    /\ now = 0
    /\ job = [j \in JobIds |-> NoJob]
    /\ jobs = {}
    /\ pc = "idle"
    /\ tick = NoTick
    /\ dispatches = [j \in JobIds |-> 0]
    /\ last = [op |-> "init"]
    /\ lock = FreeLock
    /\ jobs_lock = FreeLock
    /\ th = [t \in Callers |-> IdleCall]

\* Scheduler(max_exec=M, n_threads=T)
Init == InitWith(0..MaxThreads, 0..MaxExec)

\* Scheduler(): max_exec = 0, n_threads = 1
InitDefault == InitWith({1}, {0})

\* a Job constructed by the caller and handed to the constructor
given_job(ma) ==
    [made |-> TRUE, tags |-> {}, max_attempts |-> ma, attempts |-> 0,
     weight |-> 1, interval |-> 1, next_due |-> 0, job_type |-> "CYCLIC",
     delay |-> FALSE, start |-> -1, via |-> "constructor"]

\* Scheduler(n_threads=T, jobs={...}) with up to K jobs
InitGiven(NT, K) ==
    /\ n_threads \in NT
    /\ max_exec = 0
    /\ now = 0
    /\ \E k \in 0..K :
        /\ jobs = 1..k
        /\ job \in [JobIds -> {NoJob} \cup {given_job(ma) : ma \in 0..1}]
        /\ \A j \in JobIds : job[j].made <=> j \in 1..k
    /\ pc = "idle"
    /\ tick = NoTick
    /\ dispatches = [j \in JobIds |-> 0]
    /\ last = [op |-> "init"]
    /\ lock = FreeLock
    /\ jobs_lock = FreeLock
    /\ th = [t \in Callers |-> IdleCall]

InitWorkers == InitGiven(0..MaxThreads, MaxInitJobs)

\* Scheduler(jobs={...}): the default n_threads = 1
InitThreads == InitGiven({1}, MaxJobs)

InitReenter == InitGiven(0..MaxThreads, MaxJobs)

(* --------------------------- the clock -------------------------------- *)
advance_time ==
    /\ pc = "idle"
    /\ now < MaxTime
    /\ now' = now + 1
    /\ UNCHANGED <<n_threads, max_exec, job, jobs, pc, tick, dispatches, last, sync>>

(* --------------------------- registration ----------------------------- *)
\* Scheduler.__schedule, reached through cyclic(dt.timedelta(...), handle,
\* tags=tg, max_attempts=ma, weight=w, delay=False)
schedule(TagChoice, AttemptChoice, WeightChoice) ==
    /\ pc = "idle"
    /\ \E id \in Registrable, tg \in TagChoice, ma \in AttemptChoice, w \in WeightChoice :
        /\ ~job[id].made
        /\ \A k \in Registrable : k < id => job[k].made
        /\ LET new == [made |-> TRUE, tags |-> tg, max_attempts |-> ma,
                       attempts |-> 0, weight |-> w, interval |-> 1,
                       next_due |-> now, job_type |-> "CYCLIC",
                       delay |-> FALSE, start |-> -1, via |-> "cyclic"]
           IN /\ job' = [job EXCEPT ![id] = new]
              /\ jobs' = IF has_attempts_remaining(new) THEN jobs \cup {id} ELSE jobs
              /\ last' = [op |-> "schedule", job |-> id, pre |-> jobs]
    /\ UNCHANGED <<n_threads, max_exec, now, pc, tick, dispatches, sync>>

\* registration without tags
schedule_untagged == schedule({{}}, 0..MaxAttempts, 1..MaxWeight)

\* registration with tags, default weight
schedule_tagged == schedule(SUBSET Tags, 0..1, {1})

(* ---------------------- the registration methods ---------------------- *)
Methods == {"cyclic", "minutely", "hourly", "daily", "weekly", "once"}

\* the kind of value passed as `timing`; "other" is a value of no timing type
Shapes == {"timedelta", "time", "weekday", "datetime", "other"}

\* tg.check_type("timing", timing, Timing...) of each method
accepts(method, shape) ==
    CASE method = "cyclic" -> shape = "timedelta"
      [] method \in {"minutely", "hourly", "daily"} -> shape = "time"
      [] method = "weekly" -> shape = "weekday"
      [] method = "once" -> shape \in {"datetime", "timedelta", "weekday", "time"}

\* JOB_TYPE_MAPPING[type(timing)]
JOB_TYPE_MAPPING(shape) ==
    CASE shape = "timedelta" -> "CYCLIC"
      [] shape = "time" -> "DAILY"
      [] shape = "weekday" -> "WEEKLY"

\* the job_type each method passes to __schedule
job_type_of(method, shape) ==
    CASE method = "cyclic" -> "CYCLIC"
      [] method = "minutely" -> "MINUTELY"
      [] method = "hourly" -> "HOURLY"
      [] method = "daily" -> "DAILY"
      [] method = "weekly" -> "WEEKLY"
      [] method = "once" ->
            IF shape = "datetime" THEN "CYCLIC" ELSE JOB_TYPE_MAPPING(shape)

\* the checks of Job.__init__: timezone awareness of the timing values and of
\* start/stop against the Scheduler's tzinfo, and start <= stop
job_init_error(tz_ok, bounds) ==
    IF ~tz_ok THEN "tz"
    ELSE IF bounds = "reversed" THEN "start_stop"
    ELSE "none"

\* the Job that a method constructs; once() fixes max_attempts = 1 and turns a
\* datetime into a zero interval with delay = False and start = the datetime
new_job(method, shape, ma, when) ==
    LET at_datetime == method = "once" /\ shape = "datetime"
    IN [made |-> TRUE, tags |-> {},
        max_attempts |-> IF method = "once" THEN 1 ELSE ma,
        attempts |-> 0, weight |-> 1,
        interval |-> IF at_datetime THEN 0 ELSE 1,
        next_due |-> IF at_datetime THEN when ELSE now + 1,
        job_type |-> job_type_of(method, shape),
        delay |-> ~at_datetime,
        start |-> IF at_datetime THEN when ELSE -1,
        via |-> method]

\* a registration that puts the job into the set before it is validated
register_add_first ==
    /\ pc = "idle"
    /\ \E id \in Registrable, method \in Methods, shape \in Shapes,
          tz_ok \in BOOLEAN, bounds \in {"none", "ordered", "reversed"},
          ma \in 0..1, when \in 0..MaxTime :
        /\ ~job[id].made
        /\ \A k \in Registrable : k < id => job[k].made
        /\ method = "once" => bounds = "none" /\ ma = 1
        /\ (method # "once" \/ shape # "datetime") => when = 0
        /\ LET new == new_job(method, shape, ma, when)
               err == IF ~accepts(method, shape) THEN "type"
                      ELSE job_init_error(tz_ok, bounds)
           IN /\ jobs' = jobs \cup {id}
              /\ job' = IF err = "none" THEN [job EXCEPT ![id] = new] ELSE job
              /\ last' = [op |-> "register", method |-> method, shape |-> shape,
                          err |-> err, pre |-> jobs,
                          ret |-> IF err = "none" THEN id ELSE 0]
    /\ UNCHANGED <<n_threads, max_exec, now, pc, tick, dispatches, sync>>

\* cyclic, minutely, hourly, daily, weekly and once: the type check of the
\* method, then __schedule with the construction of the Job
register ==
    /\ pc = "idle"
    /\ \E id \in Registrable, method \in Methods, shape \in Shapes,
          tz_ok \in BOOLEAN, bounds \in {"none", "ordered", "reversed"},
          ma \in 0..1, when \in 0..MaxTime :
        /\ ~job[id].made
        /\ \A k \in Registrable : k < id => job[k].made
        /\ method = "once" => bounds = "none" /\ ma = 1
        /\ (method # "once" \/ shape # "datetime") => when = 0
        /\ LET new == new_job(method, shape, ma, when)
               err == IF ~accepts(method, shape) THEN "type"
                      ELSE job_init_error(tz_ok, bounds)
           IN IF err # "none"
              THEN /\ last' = [op |-> "register", method |-> method,
                               shape |-> shape, err |-> err, pre |-> jobs,
                               ret |-> 0]
                   /\ UNCHANGED <<job, jobs>>
              ELSE /\ job' = [job EXCEPT ![id] = new]
                   /\ jobs' = IF has_attempts_remaining(new)
                              THEN jobs \cup {id} ELSE jobs
                   /\ last' = [op |-> "register", method |-> method,
                               shape |-> shape, err |-> err, pre |-> jobs,
                               ret |-> id]
    /\ UNCHANGED <<n_threads, max_exec, now, pc, tick, dispatches, sync>>

(* --------------------------- query / delete --------------------------- *)
get_jobs ==
    /\ pc = "idle"
    /\ \E t \in TagArgs, any_tag \in BOOLEAN :
        last' = [op |-> "get_jobs", tags |-> t, any_tag |-> any_tag,
                 pre |-> jobs, res |-> get_jobs_result(jobs, t, any_tag)]
    /\ UNCHANGED <<n_threads, max_exec, now, job, jobs, pc, tick, dispatches, sync>>

\* set.discard in place of set.remove: no error for an absent job
delete_job_discard ==
    /\ pc = "idle"
    /\ \E id \in Registrable :
        /\ jobs' = jobs \ {id}
        /\ last' = [op |-> "delete_job", job |-> id, pre |-> jobs, err |-> FALSE]
    /\ UNCHANGED <<n_threads, max_exec, now, job, pc, tick, dispatches, sync>>

\* set.remove raises KeyError for an element that is not in the set
delete_job ==
    /\ pc = "idle"
    /\ \E id \in Registrable :
        /\ jobs' = jobs \ {id}
        /\ last' = [op |-> "delete_job", job |-> id, pre |-> jobs,
                    err |-> id \notin jobs]
    /\ UNCHANGED <<n_threads, max_exec, now, job, pc, tick, dispatches, sync>>

delete_jobs ==
    /\ pc = "idle"
    /\ \E t \in TagArgs, any_tag \in BOOLEAN :
        IF tags_is_none_or_empty_dict(t)
        THEN /\ jobs' = {}
             /\ last' = [op |-> "delete_jobs", tags |-> t, any_tag |-> any_tag,
                         pre |-> jobs, ret |-> Cardinality(jobs)]
        ELSE LET to_delete == select_jobs_by_tag(jobs, t.val, any_tag)
             IN /\ jobs' = jobs \ to_delete
                /\ last' = [op |-> "delete_jobs", tags |-> t, any_tag |-> any_tag,
                            pre |-> jobs, ret |-> Cardinality(to_delete)]
    /\ UNCHANGED <<n_threads, max_exec, now, job, pc, tick, dispatches, sync>>

(* ------------------------------ the tick ------------------------------ *)
\* the loop that ends __exec_jobs: for each dispatched job, in order, the
\* recompute of its due time and, without attempts remaining, delete_job,
\* whose set.remove raises KeyError for a job that is no longer in the set
RECURSIVE calc_and_evict(_, _, _, _, _)
calc_and_evict(s, i, jb, js, ref_dt) ==
    IF i > Len(s)
    THEN [job |-> jb, jobs |-> js, err |-> FALSE]
    ELSE LET j == s[i]
             jb2 == [jb EXCEPT ![j] = calc_next_exec(@, ref_dt)]
         IN IF has_attempts_remaining(jb2[j])
            THEN calc_and_evict(s, i + 1, jb2, js, ref_dt)
            ELSE IF j \in js
                 THEN calc_and_evict(s, i + 1, jb2, js \ {j}, ref_dt)
                 ELSE [job |-> jb2, jobs |-> js, err |-> TRUE]

\* what a finished exec_jobs call leaves behind for the caller
tick_outcome(t, err, ret) ==
    [op |-> "exec_jobs", err |-> err, ret |-> ret, force |-> t.force,
     ref_dt |-> t.ref_dt, pre |-> t.pre, prio |-> t.prio, sel |-> t.sel,
     executed |-> t.executed, raised |-> t.raised, calls |-> t.calls]

\* exec_jobs up to the dispatch in __exec_jobs: snapshot of the reference
\* instant, selection, and the start of the workers
exec_jobs ==
    /\ pc = "idle"
    /\ \A j \in jobs : dispatches[j] < MaxDispatch
    /\ can_acquire(lock, 1) /\ can_acquire(jobs_lock, 1)
    /\ lock' = acquire(lock, 1)
    /\ jobs_lock' = acquire(jobs_lock, 1)
    /\ \E force \in BOOLEAN, it \in Orders(jobs) :
        LET ref_dt == now
            prio == job_priority(ref_dt)
            sel == dispatch_list(force, it, prio)
            n_jobs == Len(sel)
            n_workers == IF n_threads # 0 THEN n_threads ELSE n_jobs
        IN /\ tick' = [ref_dt |-> ref_dt, force |-> force, pre |-> jobs,
                       prio |-> prio, sel |-> sel, idx |-> 1,
                       que |-> IF n_threads = 1 THEN <<>> ELSE sel,
                       unfinished |-> IF n_threads = 1 THEN 0 ELSE n_jobs,
                       wk |-> IF n_threads = 1 THEN <<>>
                              ELSE [w \in 1..n_workers |-> "get"],
                       wjob |-> IF n_threads = 1 THEN <<>>
                                ELSE [w \in 1..n_workers |-> 0],
                       executed |-> {}, raised |-> {},
                       calls |-> [j \in JobIds |-> 0],
                       call |-> [c \in 0..(IF n_threads = 1 THEN 0
                                           ELSE n_workers) |-> NoCall]]
           /\ dispatches' = [j \in JobIds |->
                                IF j \in Range(sel) THEN dispatches[j] + 1
                                ELSE dispatches[j]]
           /\ pc' = IF n_threads = 1 THEN "inline" ELSE "join"
    /\ UNCHANGED <<n_threads, max_exec, now, job, jobs, last, th>>

\* a loop that walks the selected list from its end
exec_inline_backwards ==
    /\ pc = "inline"
    /\ tick.idx <= Len(tick.sel)
    /\ LET j == tick.sel[Len(tick.sel) + 1 - tick.idx]
       IN \/ /\ job' = [job EXCEPT ![j] = exec_ok(@)]
             /\ tick' = [tick EXCEPT !.idx = @ + 1, !.executed = @ \cup {j},
                                     !.calls[j] = @ + 1]
             /\ UNCHANGED <<pc, last, lock, jobs_lock>>
          \/ /\ pc' = "idle"
             /\ last' = tick_outcome([tick EXCEPT !.raised = @ \cup {j},
                                                  !.calls[j] = @ + 1], TRUE, 0)
             /\ tick' = NoTick
             /\ lock' = release(lock)
             /\ jobs_lock' = release(jobs_lock)
             /\ UNCHANGED job
    /\ UNCHANGED <<n_threads, max_exec, now, jobs, dispatches, th>>

\* one iteration of `for job in jobs: job._exec()`; a raising callback
\* leaves exec_jobs through the exception
exec_inline ==
    /\ pc = "inline"
    /\ tick.idx <= Len(tick.sel)
    /\ LET j == tick.sel[tick.idx]
       IN \/ /\ job' = [job EXCEPT ![j] = exec_ok(@)]
             /\ tick' = [tick EXCEPT !.idx = @ + 1, !.executed = @ \cup {j},
                                     !.calls[j] = @ + 1]
             /\ UNCHANGED <<pc, last, lock, jobs_lock>>
          \/ /\ pc' = "idle"
             /\ last' = tick_outcome([tick EXCEPT !.raised = @ \cup {j},
                                                  !.calls[j] = @ + 1], TRUE, 0)
             /\ tick' = NoTick
             /\ lock' = release(lock)
             /\ jobs_lock' = release(jobs_lock)
             /\ UNCHANGED job
    /\ UNCHANGED <<n_threads, max_exec, now, jobs, dispatches, th>>

\* __exec_job_worker: que.get(block=False)
worker_get ==
    /\ pc = "join"
    /\ \E w \in DOMAIN tick.wk :
        /\ tick.wk[w] = "get"
        /\ IF tick.que # <<>>
           THEN tick' = [tick EXCEPT !.wk[w] = "exec", !.wjob[w] = Head(tick.que),
                                     !.que = Tail(@)]
           ELSE tick' = [tick EXCEPT !.wk[w] = "exit"]
    /\ UNCHANGED <<n_threads, max_exec, now, job, jobs, pc, dispatches, last, sync>>

\* __exec_job_worker: job._exec() and que.task_done(); a raising callback
\* ends the worker thread before task_done
worker_exec ==
    /\ pc = "join"
    /\ \E w \in DOMAIN tick.wk :
        /\ tick.wk[w] = "exec"
        /\ LET j == tick.wjob[w]
           IN \/ /\ job' = [job EXCEPT ![j] = exec_ok(@)]
                 /\ tick' = [tick EXCEPT !.wk[w] = "get", !.wjob[w] = 0,
                                         !.executed = @ \cup {j},
                                         !.calls[j] = @ + 1,
                                         !.unfinished = @ - 1]
              \/ /\ tick' = [tick EXCEPT !.wk[w] = "dead", !.wjob[w] = 0,
                                         !.raised = @ \cup {j},
                                         !.calls[j] = @ + 1]
                 /\ UNCHANGED job
    /\ UNCHANGED <<n_threads, max_exec, now, jobs, pc, dispatches, last, sync>>

\* an end of __exec_jobs that waits for que.join() but not for the workers
exec_jobs_return_no_join ==
    /\ \/ pc = "inline" /\ tick.idx > Len(tick.sel)
       \/ pc = "join" /\ tick.unfinished = 0
    /\ LET done == Range(tick.sel)
           recomputed == [j \in JobIds |->
                             IF j \in done THEN calc_next_exec(job[j], tick.ref_dt)
                             ELSE job[j]]
       IN /\ job' = recomputed
          /\ jobs' = jobs \ {j \in done : ~has_attempts_remaining(recomputed[j])}
    /\ pc' = "idle"
    /\ last' = tick_outcome(tick, FALSE, Len(tick.sel))
    /\ tick' = NoTick
    /\ lock' = release(lock)
    /\ jobs_lock' = release(jobs_lock)
    /\ UNCHANGED <<n_threads, max_exec, now, dispatches, th>>

\* an end of __exec_jobs that removes every dispatched job
exec_jobs_return_evict_all ==
    /\ \/ pc = "inline" /\ tick.idx > Len(tick.sel)
       \/ /\ pc = "join"
          /\ tick.unfinished = 0
          /\ \A w \in DOMAIN tick.wk : tick.wk[w] \in {"exit", "dead"}
    /\ job' = [j \in JobIds |->
                  IF j \in Range(tick.sel) THEN calc_next_exec(job[j], tick.ref_dt)
                  ELSE job[j]]
    /\ jobs' = jobs \ Range(tick.sel)
    /\ pc' = "idle"
    /\ last' = tick_outcome(tick, FALSE, Len(tick.sel))
    /\ tick' = NoTick
    /\ lock' = release(lock)
    /\ jobs_lock' = release(jobs_lock)
    /\ UNCHANGED <<n_threads, max_exec, now, dispatches, th>>

\* an end of __exec_jobs that recomputes the due times from the clock
exec_jobs_return_by_clock ==
    /\ \/ pc = "inline" /\ tick.idx > Len(tick.sel)
       \/ /\ pc = "join"
          /\ tick.unfinished = 0
          /\ \A w \in DOMAIN tick.wk : tick.wk[w] \in {"exit", "dead"}
    /\ LET end == calc_and_evict(tick.sel, 1, job, jobs, now)
       IN /\ job' = end.job
          /\ jobs' = end.jobs
          /\ last' = tick_outcome(tick, end.err,
                                  IF end.err THEN 0 ELSE Len(tick.sel))
    /\ pc' = "idle"
    /\ tick' = NoTick
    /\ lock' = release(lock)
    /\ jobs_lock' = release(jobs_lock)
    /\ UNCHANGED <<n_threads, max_exec, now, dispatches, th>>

\* an end of __exec_jobs that recomputes the due time of every registered
\* job instead of the dispatched ones
exec_jobs_return_recompute_all ==
    /\ \/ pc = "inline" /\ tick.idx > Len(tick.sel)
       \/ /\ pc = "join"
          /\ tick.unfinished = 0
          /\ \A w \in DOMAIN tick.wk : tick.wk[w] \in {"exit", "dead"}
    /\ LET all == [j \in JobIds |->
                      IF j \in jobs THEN calc_next_exec(job[j], tick.ref_dt)
                      ELSE job[j]]
           end == calc_and_evict(tick.sel, 1, all, jobs, tick.ref_dt)
       IN /\ job' = end.job
          /\ jobs' = end.jobs
          /\ last' = tick_outcome(tick, end.err,
                                  IF end.err THEN 0 ELSE Len(tick.sel))
    /\ pc' = "idle"
    /\ tick' = NoTick
    /\ lock' = release(lock)
    /\ jobs_lock' = release(jobs_lock)
    /\ UNCHANGED <<n_threads, max_exec, now, dispatches, th>>

\* the end of __exec_jobs: que.join(), worker.join(), then the recompute of
\* the next due time and the removal of jobs without attempts remaining
exec_jobs_return ==
    /\ \/ pc = "inline" /\ tick.idx > Len(tick.sel)
       \/ /\ pc = "join"
          /\ tick.unfinished = 0
          /\ \A w \in DOMAIN tick.wk : tick.wk[w] \in {"exit", "dead"}
    /\ LET end == calc_and_evict(tick.sel, 1, job, jobs, tick.ref_dt)
       IN /\ job' = end.job
          /\ jobs' = end.jobs
          /\ last' = tick_outcome(tick, end.err,
                                  IF end.err THEN 0 ELSE Len(tick.sel))
    /\ pc' = "idle"
    /\ tick' = NoTick
    /\ lock' = release(lock)
    /\ jobs_lock' = release(jobs_lock)
    /\ UNCHANGED <<n_threads, max_exec, now, dispatches, th>>

(* ------------------------ concurrent callers -------------------------- *)
\* what the steps of the calling threads leave alone
single == <<n_threads, max_exec, now, pc, tick, last>>

\* get_jobs() and the jobs property: `with self.__lock:` entered
thread_get_jobs_enter(t) ==
    /\ th[t].pc = "idle"
    /\ can_acquire(lock, t)
    /\ lock' = acquire(lock, t)
    /\ \E op \in {"get_jobs", "jobs"} :
        th' = [th EXCEPT ![t] = [IdleCall EXCEPT !.pc = "cs", !.op = op]]
    /\ UNCHANGED <<job, jobs, dispatches, jobs_lock, single>>

\* get_jobs() and jobs: the copy of self.__jobs is returned, the lock released
thread_get_jobs_return(t) ==
    /\ th[t].pc = "cs"
    /\ th[t].op \in {"get_jobs", "jobs"}
    /\ th' = [th EXCEPT ![t] = IdleCall]
    /\ lock' = release(lock)
    /\ UNCHANGED <<job, jobs, dispatches, jobs_lock, single>>

\* the thread is inside delete_jobs
in_delete_jobs(t) == th[t].op = "delete_jobs" /\ th[t].pc # "idle"

\* the thread is inside __schedule
in_schedule(t) == th[t].op = "schedule" /\ th[t].pc # "idle"

\* __schedule: the Job is constructed, then `with self.__lock:` is entered;
\* a delete_jobs call in progress on another thread overlaps with it
thread_schedule_enter(t) ==
    /\ th[t].pc = "idle"
    /\ can_acquire(lock, t)
    /\ \E id \in Registrable :
        /\ ~job[id].made
        /\ \A k \in Registrable : k < id => job[k].made
        /\ job' = [job EXCEPT ![id] =
                      [made |-> TRUE, tags |-> {}, max_attempts |-> 0,
                       attempts |-> 0, weight |-> 1, interval |-> 1,
                       next_due |-> now, job_type |-> "CYCLIC",
                       delay |-> FALSE, start |-> -1, via |-> "cyclic"]]
        /\ th' = [u \in Callers |->
                     IF u = t
                     THEN [IdleCall EXCEPT !.pc = "cs", !.op = "schedule",
                                           !.arg = id]
                     ELSE IF in_delete_jobs(u)
                          THEN [th[u] EXCEPT !.seen = @ \cup {id}]
                          ELSE th[u]]
    /\ lock' = acquire(lock, t)
    /\ UNCHANGED <<jobs, dispatches, jobs_lock, single>>

\* __schedule: self.__jobs.add(job), the lock is released and the job is
\* returned to the caller
thread_schedule_add(t) ==
    /\ th[t].pc = "cs"
    /\ th[t].op = "schedule"
    /\ jobs' = jobs \cup {th[t].arg}
    /\ th' = [th EXCEPT ![t].pc = "idle"]
    /\ lock' = release(lock)
    /\ UNCHANGED <<job, dispatches, jobs_lock, single>>

\* delete_job(job): `with self.__jobs_lock:` entered
thread_delete_job_enter(t) ==
    /\ th[t].pc = "idle"
    /\ can_acquire(jobs_lock, t)
    /\ jobs_lock' = acquire(jobs_lock, t)
    /\ \E id \in Registrable :
        /\ job[id].made
        /\ th' = [th EXCEPT ![t] = [IdleCall EXCEPT !.pc = "cs",
                                                    !.op = "delete_job",
                                                    !.arg = id]]
    /\ UNCHANGED <<job, jobs, dispatches, lock, single>>

\* delete_job(job): self.__jobs.remove(job), by return or by KeyError the
\* lock is released
thread_delete_job_remove(t) ==
    /\ th[t].pc = "cs"
    /\ th[t].op = "delete_job"
    /\ jobs' = jobs \ {th[t].arg}
    /\ th' = [th EXCEPT ![t] = IdleCall]
    /\ jobs_lock' = release(jobs_lock)
    /\ UNCHANGED <<job, dispatches, lock, single>>

\* delete_jobs(tags): `with self.__jobs_lock:` entered
thread_delete_jobs_enter(t) ==
    /\ th[t].pc = "idle"
    /\ can_acquire(jobs_lock, t)
    /\ jobs_lock' = acquire(jobs_lock, t)
    /\ \E tg \in {[kind |-> "None", val |-> {}], [kind |-> "set", val |-> {}],
                  [kind |-> "set", val |-> {"a"}]} :
        th' = [th EXCEPT ![t] =
                  [IdleCall EXCEPT !.pc = "cs", !.op = "delete_jobs", !.arg = tg,
                                   !.seen = {th[u].arg :
                                       u \in {v \in Callers \ {t} : in_schedule(v)}}]]
    /\ UNCHANGED <<job, jobs, dispatches, lock, single>>

\* delete_jobs(tags): the new set is built, set() or self.__jobs - to_delete
thread_delete_jobs_build(t) ==
    /\ th[t].pc = "cs"
    /\ th[t].op = "delete_jobs"
    /\ th' = [th EXCEPT ![t].pc = "store",
                        ![t].tmp =
                            IF tags_is_none_or_empty_dict(th[t].arg)
                            THEN {}
                            ELSE jobs \ select_jobs_by_tag(jobs, th[t].arg.val,
                                                           FALSE)]
    /\ UNCHANGED <<job, jobs, dispatches, lock, jobs_lock, single>>

\* delete_jobs(tags): the new set is bound to self.__jobs, the lock released
thread_delete_jobs_store(t) ==
    /\ th[t].pc = "store"
    /\ jobs' = th[t].tmp
    /\ th' = [th EXCEPT ![t].pc = "idle", ![t].tmp = {}]
    /\ jobs_lock' = release(jobs_lock)
    /\ UNCHANGED <<job, dispatches, lock, single>>

\* the thread has called exec_jobs and its tick has not ended
in_exec_jobs(t) == th[t].op = "exec_jobs" /\ th[t].pc # "idle"

\* exec_jobs is called: the thread arrives at `with self.__lock, ...`
thread_exec_jobs_call(t) ==
    /\ th[t].pc = "idle"
    /\ \A j \in jobs : dispatches[j] < MaxDispatch
    /\ th' = [th EXCEPT ![t] =
                 [IdleCall EXCEPT !.pc = "call", !.op = "exec_jobs",
                                  !.conc = UNION {th[u].execd :
                                      u \in {v \in Callers \ {t} : in_exec_jobs(v)}}]]
    /\ UNCHANGED <<job, jobs, dispatches, lock, jobs_lock, single>>

\* exec_jobs: self.__lock is acquired
thread_exec_jobs_lock(t) ==
    /\ th[t].pc = "call"
    /\ can_acquire(lock, t)
    /\ lock' = acquire(lock, t)
    /\ th' = [th EXCEPT ![t].pc = "lock"]
    /\ UNCHANGED <<job, jobs, dispatches, jobs_lock, single>>

\* exec_jobs: self.__jobs_lock is acquired, the reference instant is read
\* and the jobs are selected
thread_exec_jobs_select(t) ==
    /\ th[t].pc = "lock"
    /\ can_acquire(jobs_lock, t)
    /\ jobs_lock' = acquire(jobs_lock, t)
    /\ \E force \in BOOLEAN, it \in Orders(jobs) :
        LET ref_dt == now
            sel == dispatch_list(force, it, job_priority(ref_dt))
        IN /\ th' = [th EXCEPT ![t].pc = "inline", ![t].ref_dt = ref_dt,
                               ![t].sel = sel, ![t].idx = 1]
           /\ dispatches' = [j \in JobIds |->
                                IF j \in Range(sel) THEN dispatches[j] + 1
                                ELSE dispatches[j]]
    /\ UNCHANGED <<job, jobs, lock, single>>

\* one iteration of `for job in jobs: job._exec()` on the thread t; the
\* exception of a raising callback leaves exec_jobs and its `with` block
thread_exec_inline(t) ==
    /\ th[t].pc = "inline"
    /\ th[t].idx <= Len(th[t].sel)
    /\ LET j == th[t].sel[th[t].idx]
       IN \/ /\ job' = [job EXCEPT ![j] = exec_ok(@)]
             /\ th' = [u \in Callers |->
                          IF u = t
                          THEN [th[u] EXCEPT !.idx = @ + 1, !.execd = @ \cup {j}]
                          ELSE IF in_exec_jobs(u)
                               THEN [th[u] EXCEPT !.conc = @ \cup {j}]
                               ELSE th[u]]
             /\ UNCHANGED <<lock, jobs_lock>>
          \/ /\ th' = [th EXCEPT ![t] = [IdleCall EXCEPT !.execd = th[t].execd,
                                                       !.conc = th[t].conc]]
             /\ lock' = release(lock)
             /\ jobs_lock' = release(jobs_lock)
             /\ UNCHANGED job
    /\ UNCHANGED <<jobs, dispatches, single>>

\* the end of __exec_jobs on the thread t and the end of the `with` block
thread_exec_jobs_return(t) ==
    /\ th[t].pc = "inline"
    /\ th[t].idx > Len(th[t].sel)
    /\ LET end == calc_and_evict(th[t].sel, 1, job, jobs, th[t].ref_dt)
       IN /\ job' = end.job
          /\ jobs' = end.jobs
    /\ th' = [th EXCEPT ![t] = [IdleCall EXCEPT !.execd = th[t].execd,
                                                 !.conc = th[t].conc]]
    /\ lock' = release(lock)
    /\ jobs_lock' = release(jobs_lock)
    /\ UNCHANGED <<dispatches, single>>

(* ------------------- callbacks that call the Scheduler ---------------- *)
\* the operations of the Scheduler a callback may call
ReentrantOps ==
    {"schedule", "get_jobs", "jobs", "delete_job", "delete_jobs", "exec_jobs"}

\* the locks an operation acquires, in the order of its `with` statement
locks_of(op) ==
    CASE op \in {"schedule", "get_jobs", "jobs"} -> <<"lock">>
      [] op \in {"delete_job", "delete_jobs"} -> <<"jobs_lock">>
      [] op = "exec_jobs" -> <<"lock", "jobs_lock">>

lock_named(name) == IF name = "lock" THEN lock ELSE jobs_lock

\* a pool in which the callbacks would run on the thread of the tick
caller_thread_of_tick(c) == 1

\* the thread a callback runs on: with n_threads == 1 the thread of the
\* tick (c = 0), otherwise the worker thread c started by __exec_jobs
caller_thread(c) == IF c = 0 THEN 1 ELSE MaxCallers + c

\* the position of the callback c: of the tick thread or of the worker c
position(c) == IF c = 0 THEN pc ELSE tick.wk[c]

\* the callback c moves to position v with the call cl in progress
moved(c, v, cl) ==
    IF c = 0
    THEN /\ pc' = v
         /\ tick' = [tick EXCEPT !.call[0] = cl]
    ELSE /\ pc' = pc
         /\ tick' = [tick EXCEPT !.wk[c] = v, !.call[c] = cl]

\* the callback c is running inside job._exec()
in_callback(c) ==
    \/ c = 0 /\ pc = "inline" /\ tick.idx <= Len(tick.sel)
    \/ c > 0 /\ pc = "join" /\ c \in DOMAIN tick.wk /\ tick.wk[c] = "exec"

\* the callback calls an operation of the Scheduler and arrives at the
\* `with` statement of that operation; __schedule has constructed its Job
callback_enter ==
    /\ \E c \in DOMAIN tick.call, op \in ReentrantOps :
        /\ in_callback(c)
        /\ tick.call[c].n < MaxCalls
        /\ op = "exec_jobs" => \A j \in jobs : dispatches[j] < MaxDispatch
        /\ \E id \in JobIds :
            /\ CASE op = "schedule" ->
                       /\ ~job[id].made
                       /\ \A k \in JobIds : k < id => job[k].made
                       /\ job' = [job EXCEPT ![id] =
                                     [given_job(0) EXCEPT !.next_due = now,
                                                          !.via = "cyclic"]]
                 [] op = "delete_job" -> job[id].made /\ UNCHANGED job
                 [] OTHER -> id = 1 /\ UNCHANGED job
            /\ moved(c, "call_wait",
                     [op |-> op, arg |-> id, need |-> locks_of(op),
                      n |-> tick.call[c].n + 1])
    /\ UNCHANGED <<n_threads, max_exec, now, jobs, dispatches, last, sync>>

\* threading.RLock.acquire for the next lock of the `with` statement
callback_acquire ==
    /\ \E c \in DOMAIN tick.call :
        /\ position(c) = "call_wait"
        /\ LET cl == tick.call[c]
               l == Head(cl.need)
               t == caller_thread(c)
           IN /\ can_acquire(lock_named(l), t)
              /\ lock' = IF l = "lock" THEN acquire(lock, t) ELSE lock
              /\ jobs_lock' = IF l = "jobs_lock" THEN acquire(jobs_lock, t)
                              ELSE jobs_lock
              /\ moved(c, IF Tail(cl.need) = <<>> THEN "call_cs" ELSE "call_wait",
                       [cl EXCEPT !.need = Tail(@)])
    /\ UNCHANGED <<n_threads, max_exec, now, job, jobs, dispatches, last, th>>

\* exec_jobs called from a callback on the thread of the tick: the nested
\* tick runs to its end, or to the callback at position k that raises
nested_exec_jobs(force, it, k) ==
    LET ref_dt == now
        sel == dispatch_list(force, it, job_priority(ref_dt))
        stop == IF k = 0 THEN Len(sel) ELSE Min(k, Len(sel)) - 1
        ran == {sel[i] : i \in 1..stop}
        after == [j \in JobIds |-> IF j \in ran THEN exec_ok(job[j]) ELSE job[j]]
        counted == [j \in JobIds |-> IF j \in Range(sel) THEN dispatches[j] + 1
                                     ELSE dispatches[j]]
        end == IF k = 0 \/ sel = <<>>
               THEN calc_and_evict(sel, 1, after, jobs, ref_dt)
               ELSE [job |-> after, jobs |-> jobs, err |-> TRUE]
    IN [job |-> end.job, jobs |-> end.jobs, dispatches |-> counted]

\* the body of the called operation and the end of its `with` block; the
\* callback goes on after the call
callback_leave ==
    /\ \E c \in DOMAIN tick.call :
        /\ position(c) = "call_cs"
        /\ LET cl == tick.call[c]
           IN /\ CASE cl.op \in {"get_jobs", "jobs"} ->
                         UNCHANGED <<job, jobs, dispatches>>
                   [] cl.op = "schedule" ->
                         jobs' = jobs \cup {cl.arg} /\ UNCHANGED <<job, dispatches>>
                   [] cl.op = "delete_job" ->
                         jobs' = jobs \ {cl.arg} /\ UNCHANGED <<job, dispatches>>
                   [] cl.op = "delete_jobs" ->
                         jobs' = {} /\ UNCHANGED <<job, dispatches>>
                   [] cl.op = "exec_jobs" ->
                         \E force \in BOOLEAN, it \in Orders(jobs),
                            k \in 0..Cardinality(jobs) :
                             LET end == nested_exec_jobs(force, it, k)
                             IN /\ job' = end.job
                                /\ jobs' = end.jobs
                                /\ dispatches' = end.dispatches
              /\ lock' = IF "lock" \in Range(locks_of(cl.op)) THEN release(lock)
                         ELSE lock
              /\ jobs_lock' = IF "jobs_lock" \in Range(locks_of(cl.op))
                              THEN release(jobs_lock) ELSE jobs_lock
              /\ moved(c, IF c = 0 THEN "inline" ELSE "exec",
                       [NoCall EXCEPT !.n = cl.n])
    /\ UNCHANGED <<n_threads, max_exec, now, last, th>>

(* ----------------------- time passing in a tick ----------------------- *)
\* the clock goes on while exec_jobs and the callbacks run
tick_takes_time ==
    /\ pc # "idle"
    /\ now <= MaxTime
    /\ now' = now + 1
    /\ UNCHANGED <<n_threads, max_exec, job, jobs, pc, tick, dispatches, last, sync>>

\* exec_jobs: both locks are acquired and dt.datetime.now is read once
exec_jobs_begin ==
    /\ pc = "idle"
    /\ \A j \in jobs : dispatches[j] < MaxDispatch
    /\ can_acquire(lock, 1) /\ can_acquire(jobs_lock, 1)
    /\ lock' = acquire(lock, 1)
    /\ jobs_lock' = acquire(jobs_lock, 1)
    /\ \E force \in BOOLEAN :
        tick' = [NoTick EXCEPT !.ref_dt = now, !.force = force, !.pre = jobs]
    /\ pc' = "select"
    /\ UNCHANGED <<n_threads, max_exec, now, job, jobs, dispatches, last, th>>

\* exec_jobs: the priorities are computed from ref_dt, the jobs are selected
\* and handed to __exec_jobs, which starts the workers
exec_jobs_select ==
    /\ pc = "select"
    /\ \E it \in Orders(jobs) :
        LET prio == job_priority(tick.ref_dt)
            sel == dispatch_list(tick.force, it, prio)
            n_jobs == Len(sel)
            n_workers == IF n_threads # 0 THEN n_threads ELSE n_jobs
        IN /\ tick' = [tick EXCEPT
                          !.prio = prio, !.sel = sel,
                          !.que = IF n_threads = 1 THEN <<>> ELSE sel,
                          !.unfinished = IF n_threads = 1 THEN 0 ELSE n_jobs,
                          !.wk = IF n_threads = 1 THEN <<>>
                                 ELSE [w \in 1..n_workers |-> "get"],
                          !.wjob = IF n_threads = 1 THEN <<>>
                                   ELSE [w \in 1..n_workers |-> 0],
                          !.call = [c \in 0..(IF n_threads = 1 THEN 0
                                              ELSE n_workers) |-> NoCall]]
           /\ dispatches' = [j \in JobIds |->
                                IF j \in Range(sel) THEN dispatches[j] + 1
                                ELSE dispatches[j]]
           /\ pc' = IF n_threads = 1 THEN "inline" ELSE "join"
    /\ UNCHANGED <<n_threads, max_exec, now, job, jobs, last, sync>>

(* --------------------------- specifications --------------------------- *)
Next ==
    \/ advance_time
    \/ schedule_untagged
    \/ delete_job
    \/ exec_jobs
    \/ exec_inline
    \/ worker_get
    \/ worker_exec
    \/ exec_jobs_return

Spec == Init /\ [][Next]_vars

NextTags ==
    \/ schedule_tagged
    \/ get_jobs
    \/ delete_job
    \/ delete_jobs
    \/ exec_jobs
    \/ exec_inline
    \/ exec_jobs_return

SpecTags == InitDefault /\ [][NextTags]_vars

\* the registration methods and ticks of a default Scheduler
NextReg ==
    \/ advance_time
    \/ register
    \/ exec_jobs
    \/ exec_inline
    \/ exec_jobs_return

SpecReg == InitDefault /\ [][NextReg]_vars

\* ticks of a Scheduler that was constructed with its jobs
NextWorkers ==
    \/ advance_time
    \/ exec_jobs
    \/ exec_inline
    \/ worker_get
    \/ worker_exec
    \/ exec_jobs_return

SpecWorkers == InitWorkers /\ [][NextWorkers]_vars

\* threads that call the operations of one Scheduler concurrently
NextThreads ==
    \/ advance_time
    \/ \E t \in Callers :
        \/ thread_get_jobs_enter(t)
        \/ thread_get_jobs_return(t)
        \/ thread_schedule_enter(t)
        \/ thread_schedule_add(t)
        \/ thread_delete_job_enter(t)
        \/ thread_delete_job_remove(t)
        \/ thread_delete_jobs_enter(t)
        \/ thread_delete_jobs_build(t)
        \/ thread_delete_jobs_store(t)
        \/ thread_exec_jobs_call(t)
        \/ thread_exec_jobs_lock(t)
        \/ thread_exec_jobs_select(t)
        \/ thread_exec_inline(t)
        \/ thread_exec_jobs_return(t)

SpecThreads == InitThreads /\ [][NextThreads]_vars

\* ticks whose callbacks call the operations of their own Scheduler
NextReenter ==
    \/ advance_time
    \/ exec_jobs
    \/ exec_inline
    \/ worker_get
    \/ worker_exec
    \/ exec_jobs_return
    \/ callback_enter
    \/ callback_acquire
    \/ callback_leave

SpecReenter == InitReenter /\ [][NextReenter]_vars

\* ticks during which the clock goes on
NextClock ==
    \/ advance_time
    \/ tick_takes_time
    \/ exec_jobs_begin
    \/ exec_jobs_select
    \/ exec_inline
    \/ worker_get
    \/ worker_exec
    \/ exec_jobs_return

SpecClock == InitWorkers /\ [][NextClock]_vars

(* ------------------------------ claims -------------------------------- *)
\* the tick whose outcome is visible: the running one, else the last call
TickEnded == pc = "idle" /\ last.op = "exec_jobs"
TickReturned == TickEnded /\ ~last.err
TickRaised == TickEnded /\ last.err

\* a threaded tick in which no worker can take another step
WorkersStopped ==
    pc = "join" /\ \A w \in DOMAIN tick.wk : tick.wk[w] \in {"exit", "dead"}

NoDuplicates(s) == \A i, k \in DOMAIN s : i # k => s[i] # s[k]

Overdue(t) == {j \in t.pre : t.prio[j] > 0}

\* C1: a job with max_attempts = N > 0 is dispatched at most N times in
\* total, its attempts never exceed max_attempts, and once the tick of its
\* N-th dispatch has returned the job is no longer in get_jobs().
C1_AtMostMaxAttemptsDispatches ==
    \A j \in JobIds :
        (job[j].made /\ job[j].max_attempts > 0) =>
            /\ dispatches[j] <= job[j].max_attempts
            /\ job[j].attempts <= job[j].max_attempts
            /\ (/\ TickReturned
                /\ j \in Range(last.sel)
                /\ dispatches[j] >= job[j].max_attempts)
                    => j \notin get_jobs_result(jobs, [kind |-> "None", val |-> {}], FALSE)

\* C2: when exactly one selected job's callback raised and the tick can
\* execute nothing more (it ended, or all its workers stopped), every other
\* selected job has been executed.
C2_OthersStillExecuted ==
    /\ (TickEnded /\ Cardinality(last.raised) = 1)
            => (Range(last.sel) \ last.raised) \subseteq last.executed
    /\ (WorkersStopped /\ Cardinality(tick.raised) = 1)
            => (Range(tick.sel) \ tick.raised) \subseteq tick.executed

\* C3: after a tick, whether or not a callback raised, every dispatched job
\* has had its next due time recomputed from the tick's reference instant and
\* no dispatched job without attempts remaining is left in the job set.
C3_RecomputeAndEvictionAlwaysRun ==
    TickEnded =>
        \A j \in Range(last.sel) :
            /\ job[j].next_due = last.ref_dt + job[j].interval
            /\ j \in jobs => has_attempts_remaining(job[j])

\* C4 for one tick t
CapAndPriorityOrder(t) ==
    ~t.force =>
        /\ NoDuplicates(t.sel)
        /\ Range(t.sel) \subseteq t.pre
        /\ max_exec > 0 => Len(t.sel) = Min(max_exec, Cardinality(Overdue(t)))
        /\ max_exec = 0 => Range(t.sel) = Overdue(t)
        /\ \A u \in t.pre \ Range(t.sel), d \in Range(t.sel) :
                ~(t.prio[u] > t.prio[d])

\* C4: an unforced tick with max_exec = M > 0 dispatches exactly
\* min(M, number of jobs with priority > 0) jobs and returns that count, no
\* undispatched job has a strictly greater priority than a dispatched one,
\* and with max_exec = 0 exactly the jobs with priority > 0 are dispatched.
C4_CapAndPriorityOrder ==
    /\ pc # "idle" => CapAndPriorityOrder(tick)
    /\ TickEnded => CapAndPriorityOrder(last)
    /\ (TickReturned /\ ~last.force) =>
            /\ last.ret = Len(last.sel)
            /\ max_exec > 0 => last.ret = Min(max_exec, Cardinality(Overdue(last)))
            /\ max_exec = 0 => last.ret = Cardinality(Overdue(last))

\* an unforced tick returned that had to cut the overdue jobs down to the cap
\* and left a job of lower priority for later
C4_Witness ==
    /\ TickReturned /\ ~last.force
    /\ max_exec = 1
    /\ Cardinality(Overdue(last)) = 2
    /\ last.ret = 1
    /\ \E u \in last.pre \ Range(last.sel) : last.prio[u] < last.prio[last.sel[1]]

\* C5 for one tick t: the priorities are those of the jobs at the reference
\* instant, and only jobs with positive priority are selected or executed
OnlyPositivePriority(t) ==
    ~t.force =>
        /\ \A j \in Range(t.sel) : t.prio[j] > 0
        /\ \A j \in t.executed \cup t.raised : t.prio[j] > 0

\* C5: in an unforced tick no job with priority <= 0 is dispatched, whatever
\* max_exec is and however many other jobs there are.
C5_NotDueNeverDispatched ==
    /\ pc # "idle" =>
            /\ OnlyPositivePriority(tick)
            /\ \A j \in tick.pre :
                  tick.prio[j] = (tick.ref_dt - job[j].next_due) * job[j].weight
    /\ TickEnded => OnlyPositivePriority(last)

\* an unforced tick returned with room left under the cap and left a job
\* that was not yet due alone, while it ran the overdue one
C5_Witness ==
    /\ TickReturned /\ ~last.force
    /\ max_exec = 2
    /\ Cardinality(last.pre) = 2
    /\ last.ret = 1
    /\ \E j \in last.pre : last.prio[j] <= 0 /\ j \notin last.executed

\* C6 for one tick t
ForcedSelectsAll(t) ==
    t.force =>
        /\ NoDuplicates(t.sel)
        /\ Range(t.sel) = t.pre
        /\ Len(t.sel) = Cardinality(t.pre)

\* C6: a forced tick dispatches every registered job exactly once, whatever
\* its time until due and whatever max_exec is, and returns the number of
\* jobs registered at its start.
C6_ForceDispatchesAll ==
    /\ pc # "idle" => ForcedSelectsAll(tick)
    /\ TickEnded => ForcedSelectsAll(last)
    /\ (TickReturned /\ last.force) =>
            /\ last.ret = Cardinality(last.pre)
            /\ last.executed = last.pre

\* a forced tick returned that ran more jobs than the cap allows, one of
\* them not yet due
C6_Witness ==
    /\ TickReturned /\ last.force
    /\ max_exec = 1
    /\ last.ret = 2
    /\ \E j \in last.pre : last.prio[j] <= 0

\* the `tags` argument is absent or empty
NoTagsGiven(t) == t.kind = "None" \/ t.val = {}

\* C7: delete_jobs with tags absent or empty, for either any_tag, removes
\* every job and returns the number of jobs registered before the call (so
\* that a repeated call finds nothing and returns 0).
C7_DeleteAllWithoutTags ==
    (last.op = "delete_jobs" /\ NoTagsGiven(last.tags)) =>
        /\ jobs = {}
        /\ last.ret = Cardinality(last.pre)

\* the jobs of js that the filter (tags, any_tag) describes
Matching(js, tags, any_tag) ==
    IF any_tag
    THEN {j \in js : \E x \in tags : x \in job[j].tags}
    ELSE {j \in js : \A x \in tags : x \in job[j].tags}

\* C8: get_jobs returns all registered jobs when tags is absent or empty,
\* for either any_tag; for non-empty tags exactly the jobs whose tags
\* intersect tags (any_tag) or contain all of tags (not any_tag).
C8_GetJobsFilter ==
    last.op = "get_jobs" =>
        IF NoTagsGiven(last.tags)
        THEN last.res = jobs
        ELSE last.res = Matching(jobs, last.tags.val, last.any_tag)

\* C9: for non-empty tags delete_jobs removes exactly the jobs get_jobs
\* would have returned before the call, returns their count, keeps every
\* other job, and get_jobs with the same filter is empty afterwards.
C9_DeleteExactlyMatching ==
    (last.op = "delete_jobs" /\ ~NoTagsGiven(last.tags)) =>
        LET matched == Matching(last.pre, last.tags.val, last.any_tag)
        IN /\ matched = get_jobs_result(last.pre, last.tags, last.any_tag)
           /\ jobs = last.pre \ matched
           /\ last.ret = Cardinality(matched)
           /\ get_jobs_result(jobs, last.tags, last.any_tag) = {}

\* delete_jobs by two tags in `all` mode removed one job and kept another
\* that carries only one of the tags
C9_Witness ==
    /\ last.op = "delete_jobs"
    /\ last.tags = [kind |-> "set", val |-> {"a", "b"}]
    /\ ~last.any_tag
    /\ last.ret = 1
    /\ \E j \in jobs : job[j].tags = {"a"}

\* C10: delete_job removes exactly the given job when it is registered and
\* keeps all others; when it is not registered it signals an error and the
\* job set is unchanged.
C10_DeleteJobByIdentity ==
    last.op = "delete_job" =>
        IF last.job \in last.pre
        THEN ~last.err /\ jobs = last.pre \ {last.job}
        ELSE last.err /\ jobs = last.pre

\* delete_job of a job that a tick evicted after its only attempt signalled
\* an error and left the other registered job alone
C10_Witness ==
    /\ last.op = "delete_job"
    /\ last.err
    /\ job[last.job].made
    /\ job[last.job].max_attempts = 1
    /\ job[last.job].attempts = 1
    /\ jobs # {}

\* C11: when a registration method fails with a validation error (wrong
\* timing shape, timezone mismatch, start later than stop) the error reaches
\* the caller and the job set is the same as before the call.
C11_RejectedRegistrationKeepsJobs ==
    last.op = "register" =>
        /\ (\/ ~accepts(last.method, last.shape)
            \/ last.err \in {"tz", "start_stop"}) => last.err # "none"
        /\ last.err # "none" => jobs = last.pre /\ last.ret = 0

\* weekly() was rejected for start later than stop while another job was
\* registered, and that job is still the only one
C11_Witness ==
    /\ last.op = "register"
    /\ last.method = "weekly"
    /\ last.err = "start_stop"
    /\ Cardinality(jobs) = 1

\* C14: a job registered through once() has max_attempts = 1 and the
\* discipline of its timing (a datetime gives CYCLIC with zero interval,
\* delay = false and start = the datetime); it is dispatched at most once and
\* is absent from the schedule after the tick that dispatched it.
C14_OnceIsDispatchedOnce ==
    \A j \in JobIds :
        (job[j].made /\ job[j].via = "once") =>
            /\ job[j].max_attempts = 1
            /\ job[j].job_type \in {"CYCLIC", "DAILY", "WEEKLY"}
            /\ job[j].start # -1 =>
                    /\ job[j].job_type = "CYCLIC"
                    /\ job[j].interval = 0
                    /\ ~job[j].delay
            /\ dispatches[j] <= 1
            /\ (TickEnded /\ j \in Range(last.sel)) => j \notin jobs

\* C15: a successful registration returns the constructed job, which is in
\* the job set afterwards exactly if it has attempts remaining at
\* construction; a job with max_attempts = 0 is registered and no tick evicts
\* it, however often it is dispatched.
C15_RegisteredWhileAttemptsRemain ==
    /\ (pc = "idle" /\ last.op = "register" /\ last.err = "none") =>
            /\ last.ret \in Registrable
            /\ last.ret \notin last.pre
            /\ job[last.ret].made
            /\ job[last.ret].attempts = 0
            /\ jobs \ {last.ret} = last.pre
            /\ last.ret \in jobs <=> has_attempts_remaining(job[last.ret])
    /\ \A j \in JobIds :
            (job[j].made /\ job[j].max_attempts = 0) => j \in jobs

\* a job with unlimited attempts is still registered after the second tick
\* that dispatched and executed it returned
C15_Witness ==
    /\ TickReturned
    /\ \E j \in Range(last.sel) :
            /\ job[j].max_attempts = 0
            /\ job[j].attempts = 2
            /\ dispatches[j] = 2
            /\ j \in jobs

\* some step of the running tick is possible
TickCanProceed ==
    \/ pc = "inline"
    \/ /\ pc = "join"
       /\ \/ \E w \in DOMAIN tick.wk : tick.wk[w] \in {"get", "exec"}
          \/ tick.unfinished = 0

\* C16: for every n_threads >= 0 and every selected list exec_jobs returns
\* and releases the locks once every callback has returned or raised: a
\* running tick never reaches a point from which it cannot go on, and the
\* locks are free when no tick is running.
C16_TickAlwaysReturns ==
    /\ pc # "idle" => TickCanProceed
    /\ pc = "idle" => lock = FreeLock /\ jobs_lock = FreeLock

\* C17: with n_threads != 1 every selected job has its exec() called exactly
\* once in the tick: never more than once, and once no worker can take
\* another step (or the tick is over) none has been skipped.
C17_EachSelectedJobExecutedOnce ==
    n_threads # 1 =>
        /\ pc = "join" => \A j \in JobIds : tick.calls[j] <= 1
        /\ WorkersStopped => \A j \in Range(tick.sel) : tick.calls[j] = 1
        /\ TickEnded => \A j \in Range(last.sel) : last.calls[j] = 1

\* C18: within a tick no next-due recompute and no eviction happens before
\* the exec() of every selected job has finished and every worker has
\* terminated.
C18_RecomputeOnlyAfterAllExecuted ==
    [][(/\ pc # "idle"
        /\ \/ jobs' # jobs
           \/ \E j \in JobIds : job'[j].next_due # job[j].next_due)
       => /\ Range(tick.sel) \subseteq tick.executed \cup tick.raised
          /\ \A w \in DOMAIN tick.wk : tick.wk[w] \in {"exit", "dead"}]_vars

\* a tick with two workers returned after it ran three jobs, recomputed their
\* next due time and evicted one of them
C18_Witness ==
    /\ TickReturned
    /\ n_threads = 2
    /\ Cardinality(last.executed) = 3
    /\ jobs # last.pre
    /\ \A j \in last.pre : job[j].next_due = last.ref_dt + job[j].interval

\* C19 for one tick t: a job whose exec() has started is preceded by the
\* finished exec() of every selected job of strictly higher priority
HigherPriorityFirst(t) ==
    ~t.force =>
        \A j \in t.executed \cup t.raised :
            \A h \in Range(t.sel) : t.prio[h] > t.prio[j] => h \in t.executed

\* C19: with n_threads == 1 the jobs of an unforced tick are executed one at
\* a time in selection order, higher priority first.
C19_InlineInSelectionOrder ==
    n_threads = 1 =>
        /\ pc # "idle" =>
              /\ pc = "inline"
              /\ HigherPriorityFirst(tick)
              /\ tick.executed = {tick.sel[i] : i \in 1..(tick.idx - 1)}
        /\ TickEnded => HigherPriorityFirst(last)

\* an unforced inline tick has executed the job of higher priority and not
\* yet the other selected job
C19_Witness ==
    /\ n_threads = 1
    /\ pc = "inline"
    /\ ~tick.force
    /\ Len(tick.sel) = 2
    /\ tick.idx = 2
    /\ tick.prio[tick.sel[1]] > tick.prio[tick.sel[2]]
    /\ tick.executed = {tick.sel[1]}

\* the thread is inside the block that reads or writes self.__jobs
in_critical_section(t) == th[t].pc \in {"cs", "store", "inline"}

\* C12: the reads of the job set (the priority computation of a tick,
\* get_jobs, jobs) and its writes (registration, delete_job, delete_jobs,
\* the eviction of a tick) exclude each other: no two threads are inside
\* job-set critical sections at the same time.
C12_JobSetAccessExclusive ==
    \A t, u \in Callers :
        t # u => ~(in_critical_section(t) /\ in_critical_section(u))

\* two ticks never run their selection, dispatch and eviction at once
TicksSerialized ==
    \A t, u \in Callers :
        t # u => ~(th[t].op = "exec_jobs" /\ th[t].pc = "inline"
                   /\ th[u].op = "exec_jobs" /\ th[u].pc = "inline")

\* C13: two concurrent exec_jobs calls are serialized, the second selects
\* only after the first has finished, and a job with max_attempts = 1 is
\* executed by at most one of two overlapping ticks.
C13_ConcurrentTicksSerialized ==
    /\ TicksSerialized
    /\ \A t \in Callers :
          \A j \in th[t].execd \cap th[t].conc : job[j].max_attempts # 1

\* the call of the callback c waits for a lock that another thread holds
call_blocked(c) ==
    /\ position(c) = "call_wait"
    /\ ~can_acquire(lock_named(Head(tick.call[c].need)), caller_thread(c))

\* C20: a callback that calls an operation of its own Scheduler from inside
\* a tick never waits when n_threads == 1, because the tick's thread may
\* acquire its own locks again; when n_threads != 1 the call waits for ever:
\* the lock it needs is held by the tick thread, which waits in que.join()
\* for the job of that very worker.
C20_ReentrantCallback ==
    /\ n_threads = 1 =>
          /\ pc = "call_wait" => ~call_blocked(0)
          /\ pc = "call_cs" =>
                \A l \in Range(locks_of(tick.call[0].op)) :
                    lock_named(l).owner = 1 /\ lock_named(l).count = 2
    /\ n_threads # 1 =>
          \A w \in DOMAIN tick.wk :
              tick.wk[w] \in {"call_wait", "call_cs"} =>
                  /\ call_blocked(w)
                  /\ lock_named(Head(tick.call[w].need)).owner = 1
                  /\ pc = "join"
                  /\ tick.unfinished > 0

C20_Witness ==
    /\ n_threads = 2
    /\ pc = "join"
    /\ tick.que = <<>>
    /\ \E w, v \in DOMAIN tick.wk :
        /\ tick.wk[w] = "call_wait" /\ tick.call[w].op = "exec_jobs"
        /\ tick.wk[v] = "exit"

\* the same call made on the thread of the tick holds its locks twice
ReentrantCallInline ==
    /\ n_threads = 1
    /\ pc = "call_cs"
    /\ tick.call[0].op = "exec_jobs"
    /\ lock.count = 2 /\ jobs_lock.count = 2

\* the job j is selected by the filter of delete_jobs(tags, any_tag=False)
matches_filter(j, tg) ==
    tags_is_none_or_empty_dict(tg) \/ j \in select_jobs_by_tag({j}, tg.val, FALSE)

\* the thread t has returned from a registration and u from a delete_jobs
\* call that was in progress while the registration ran; neither has called
\* anything since
returned_together(t, u) ==
    /\ t # u
    /\ th[t].pc = "idle" /\ th[t].op = "schedule"
    /\ th[u].pc = "idle" /\ th[u].op = "delete_jobs"
    /\ th[t].arg \in th[u].seen

\* C21: a registration that runs concurrently with delete_jobs on another
\* thread is not lost: once both calls have returned, the new job, having
\* attempts remaining and not matching the delete filter, is in the job set.
C21_RegistrationNotLost ==
    \A t, u \in Callers :
        (/\ returned_together(t, u)
         /\ has_attempts_remaining(job[th[t].arg])
         /\ ~matches_filter(th[t].arg, th[u].arg))
        => th[t].arg \in jobs

\* C22: a tick changes nothing about the jobs it does not select: no step of
\* a tick, from its selection to its return, changes the membership in the
\* job set, the attempts count or the next-due instant of a job that is not
\* in the dispatched list.
C22_UnselectedJobsUntouched ==
    [][(pc # "idle" \/ pc' # "idle")
       => \A j \in JobIds \ (IF pc # "idle" THEN Range(tick.sel)
                             ELSE Range(tick'.sel)) :
              /\ (j \in jobs') = (j \in jobs)
              /\ job'[j].attempts = job[j].attempts
              /\ job'[j].next_due = job[j].next_due]_vars

\* a tick has returned that dispatched and evicted one job and left a due
\* job, cut off by max_exec, as it was
C22_Witness ==
    /\ TickReturned
    /\ ~last.force
    /\ Len(last.sel) = 1
    /\ last.sel[1] \notin jobs
    /\ \E j \in last.pre \ Range(last.sel) :
        /\ last.prio[j] > 0
        /\ j \in jobs
        /\ job[j].attempts = 0
        /\ job[j].next_due < last.ref_dt

\* C23: one reference instant is taken at the start of a tick; every job's
\* priority is computed from it and every dispatched job's next-due instant
\* is recomputed from it, whatever the clock shows when the priorities are
\* computed or when the callbacks have finished.
C23_OneReferenceInstant ==
    /\ pc \in {"inline", "join"} =>
          /\ tick.ref_dt <= now
          /\ ~tick.force =>
                \A j \in tick.pre :
                    tick.prio[j] = (tick.ref_dt - job[j].next_due) * job[j].weight
    /\ TickReturned =>
          \A j \in Range(last.sel) :
              job[j].next_due = last.ref_dt + job[j].interval

\* a tick that started at MaxTime has returned after the clock went on
C23_Witness ==
    /\ TickReturned
    /\ ~last.force
    /\ last.ref_dt = MaxTime
    /\ now = MaxTime + 1
    /\ last.sel # <<>>
    /\ \A j \in Range(last.sel) :
          /\ last.prio[j] = MaxTime
          /\ job[j].next_due = MaxTime + 1

====
